---- MODULE Spec2Model ----
(***************************************************************************)
(* The dynv6 libdns provider (provider.go): GetRecords, AppendRecords,     *)
(* SetRecords and DeleteRecords, each a sequential loop of remote calls    *)
(* against one zone of the provider.  One step of the model is one remote  *)
(* call together with the Go statements around it.                         *)
(***************************************************************************)
EXTENDS Integers, Sequences, FiniteSets, TLC

\* ------------------------------------------------------------------ bounds
\* Longest request list a caller passes to Append/Set/Delete.
MaxLen == 3
\* Longest request list of each of the two concurrent Set callers.
MaxRaceLen == 1

\* The callers.  Caller 1 is the only one in the sequential specification.
Procs == {1, 2}

\* ------------------------------------------------------- the two record types
\* libdns.Record is an interface; libdns.RR is the one concrete type the
\* provider's type assertions accept.  kind = "Address" stands for any other
\* implementation (libdns.Address, libdns.TXT, ...), whose Name/Type/Data/TTL
\* are what its RR() method yields.
RR(n, t, d, ttl) == [kind |-> "RR", Name |-> n, Type |-> t, Data |-> d, TTL |-> ttl]

Address(n, t, d, ttl) == [kind |-> "Address", Name |-> n, Type |-> t, Data |-> d, TTL |-> ttl]

\* type record struct { ID, Name, Type, Data, TTL }; ID 0 is Go's zero value.
record(id, n, t, d, ttl) == [ID |-> id, Name |-> n, Type |-> t, Data |-> d, TTL |-> ttl]

\* The records callers ask for: two values of one (Name, Type), one record that
\* differs in Type only, one that differs in Name only, and one that is not a
\* libdns.RR.
Pool ==
  { RR("www", "A", "1.2.3.4", 60),
    RR("www", "A", "5.6.7.8", 300),
    RR("www", "TXT", "1.2.3.4", 60),
    RR("mail", "A", "1.2.3.4", 60),
    Address("www", "A", "5.6.7.8", 300) }

RECURSIVE SeqsUpTo(_, _)
SeqsUpTo(S, n) ==
  IF n = 0 THEN {<<>>}
  ELSE LET shorter == SeqsUpTo(S, n - 1)
       IN  shorter \cup {Append(s, x) : s \in {t \in shorter : Len(t) = n - 1}, x \in S}

Requests == SeqsUpTo(Pool, MaxLen)

RaceRequests == SeqsUpTo(Pool, MaxRaceLen)

\* Zones the provider may hold when the first call starts (in listing order):
\* empty, one record, two records of one (Name, Type) with different Data, two
\* records equal in Name, Type and Data, and two unrelated records.
InitZones ==
  { <<>>,
    <<record(1, "www", "A", "1.2.3.4", 60)>>,
    <<record(1, "www", "A", "1.2.3.4", 60), record(2, "www", "A", "5.6.7.8", 60)>>,
    <<record(1, "www", "A", "1.2.3.4", 60), record(2, "www", "A", "1.2.3.4", 60)>>,
    <<record(1, "mail", "A", "1.2.3.4", 60), record(2, "www", "TXT", "1.2.3.4", 60)>> }

\* ------------------------------------------------------------ pure functions
getDataFromRecord(r) == IF r.kind = "RR" THEN r.Data ELSE ""

toLibdnsRecord(rec) == RR(rec.Name, rec.Type, rec.Data, rec.TTL)

fromLibdnsRecord_keepsNoTTL(r) ==
  IF r.kind = "RR"
  THEN [ok |-> TRUE, rec |-> record(0, r.Name, r.Type, r.Data, 0)]
  ELSE [ok |-> FALSE, rec |-> record(0, "", "", "", 0)]

fromLibdnsRecord(r) ==
  IF r.kind = "RR"
  THEN [ok |-> TRUE, rec |-> record(0, r.Name, r.Type, r.Data, r.TTL)]
  ELSE [ok |-> FALSE, rec |-> record(0, "", "", "", 0)]

\* A nil *record.
NilRecord == record(-1, "", "", "", 0)

\* findRecord / findRecordWithValue: a linear scan that returns the first match
\* in listing order, nil when there is none.
RECURSIVE findRecordFrom(_, _, _)
findRecordFrom(records, r, k) ==
  IF k > Len(records) THEN NilRecord
  ELSE IF records[k].Name = r.Name /\ records[k].Type = r.Type THEN records[k]
  ELSE findRecordFrom(records, r, k + 1)

findRecord(records, r) == findRecordFrom(records, r, 1)

RECURSIVE findRecordWithValueFrom(_, _, _)
findRecordWithValueFrom(records, r, k) ==
  IF k > Len(records) THEN NilRecord
  ELSE IF records[k].Name = r.Name /\ records[k].Type = r.Type /\ records[k].Data = r.Data
  THEN records[k]
  ELSE findRecordWithValueFrom(records, r, k + 1)

findRecordWithValue(records, r) == findRecordWithValueFrom(records, r, 1)

RECURSIVE findLastRecordFrom(_, _, _)
findLastRecordFrom(records, r, k) ==
  IF k < 1 THEN NilRecord
  ELSE IF records[k].Name = r.Name /\ records[k].Type = r.Type THEN records[k]
  ELSE findLastRecordFrom(records, r, k - 1)

\* ------------------------------------------------- the provider's zone (remote)
IDs(z) == {z[k].ID : k \in DOMAIN z}

addRecordRemote(z, rec, id) == Append(z, [rec EXCEPT !.ID = id])

updateRecordRemote(z, rec) == [k \in DOMAIN z |-> IF z[k].ID = rec.ID THEN rec ELSE z[k]]

deleteRecordRemote(z, id) == SelectSeq(z, LAMBDA e : e.ID # id)

\* ----------------------------------------------------------------- the state
VARIABLES
  zone,      \* the provider's records of the zone, in listing order
  nextID,    \* the ID the provider assigns to the next created record
  pc,        \* per caller: "idle", "zone", "fetch", "loop", "done"
  phase,     \* per caller: "first" call or its "followup"
  op,        \* per caller: "get", "append", "set", "delete"
  recs,      \* per caller: the request list of the running call
  i,         \* per caller: position of the loop in recs (1-based)
  existing,  \* per caller: existingRecords, the list fetched by this call
  results,   \* per caller: the returned list
  err,       \* per caller: the returned error, "none" for nil
  log,       \* per caller: the remote write calls this call has issued
  prev       \* per caller: the call that came before the running one

vars == <<zone, nextID, pc, phase, op, recs, i, existing, results, err, log, prev>>

NoCall == [op |-> "none", err |-> "none", results |-> <<>>]

Init ==
  /\ zone \in InitZones
  /\ nextID = Len(zone) + 1
  /\ pc = [p \in Procs |-> "idle"]
  /\ phase = [p \in Procs |-> "first"]
  /\ op = [p \in Procs |-> "none"]
  /\ recs = [p \in Procs |-> <<>>]
  /\ i = [p \in Procs |-> 1]
  /\ existing = [p \in Procs |-> <<>>]
  /\ results = [p \in Procs |-> <<>>]
  /\ err = [p \in Procs |-> "none"]
  /\ log = [p \in Procs |-> <<>>]
  /\ prev = [p \in Procs |-> NoCall]

\* A caller enters one of the four entry points.
Begin(p, o, rs) ==
  /\ pc' = [pc EXCEPT ![p] = "zone"]
  /\ op' = [op EXCEPT ![p] = o]
  /\ recs' = [recs EXCEPT ![p] = rs]
  /\ i' = [i EXCEPT ![p] = 1]
  /\ existing' = [existing EXCEPT ![p] = <<>>]
  /\ results' = [results EXCEPT ![p] = <<>>]
  /\ err' = [err EXCEPT ![p] = "none"]
  /\ log' = [log EXCEPT ![p] = <<>>]
  /\ UNCHANGED <<zone, nextID>>

\* The caller's first call: any entry point, any request list.
Call(p) ==
  /\ pc[p] = "idle"
  /\ \/ Begin(p, "get", <<>>)
     \/ \E o \in {"append", "set", "delete"}, rs \in Requests : Begin(p, o, rs)
  /\ UNCHANGED <<phase, prev>>

\* The call that follows it, with no other operation in between: the caller
\* lists the zone, or repeats its call with the same request list.
FollowUp(p) ==
  /\ pc[p] = "done" /\ phase[p] = "first"
  /\ phase' = [phase EXCEPT ![p] = "followup"]
  /\ prev' = [prev EXCEPT ![p] = [op |-> op[p], err |-> err[p], results |-> results[p]]]
  /\ \/ Begin(p, "get", <<>>)
     \/ op[p] # "get" /\ Begin(p, op[p], recs[p])

\* One of two concurrent callers calls SetRecords.
CallSet(p) ==
  /\ pc[p] = "idle"
  /\ \E rs \in RaceRequests : Begin(p, "set", rs)
  /\ UNCHANGED <<phase, prev>>

\* return <list>, <error>
Fail(p, e) ==
  /\ pc' = [pc EXCEPT ![p] = "done"]
  /\ err' = [err EXCEPT ![p] = e]

\* zoneDetails, err := p.getZoneByName(ctx, zone)
GetZone(p) ==
  /\ pc[p] = "zone"
  /\ \/ /\ pc' = [pc EXCEPT ![p] = IF op[p] = "append" THEN "loop" ELSE "fetch"]
        /\ UNCHANGED err
     \/ Fail(p, "ZoneNotFound")
  /\ UNCHANGED <<zone, nextID, phase, op, recs, i, existing, results, log, prev>>

RECURSIVE toLibdnsRecords(_)
toLibdnsRecords(records) ==
  IF records = <<>> THEN <<>>
  ELSE <<toLibdnsRecord(Head(records))>> \o toLibdnsRecords(Tail(records))

\* dynv6Records / existingRecords, err := p.getRecords(ctx, zoneDetails.ID)
Fetch(p) ==
  /\ pc[p] = "fetch"
  /\ \/ /\ existing' = [existing EXCEPT ![p] = zone]
        /\ IF op[p] = "get"
           THEN /\ results' = [results EXCEPT ![p] = toLibdnsRecords(zone)]
                /\ pc' = [pc EXCEPT ![p] = "done"]
           ELSE /\ pc' = [pc EXCEPT ![p] = "loop"]
                /\ UNCHANGED results
        /\ UNCHANGED err
     \/ /\ Fail(p, "TransportError")
        /\ UNCHANGED <<existing, results>>
  /\ UNCHANGED <<zone, nextID, phase, op, recs, i, log, prev>>

\* One remote write call as it is issued: what it is, for which request, what it
\* carries, and whether the provider carried it out.
Issued(kind, at, rec, ok) == [kind |-> kind, at |-> at, rec |-> rec, ok |-> ok]

\* results = append(results, x), next iteration
Continue(p, x) ==
  /\ results' = [results EXCEPT ![p] = Append(results[p], x)]
  /\ i' = [i EXCEPT ![p] = i[p] + 1]
  /\ UNCHANGED <<pc, err>>

Abort_continues(p, e) ==
  /\ err' = [err EXCEPT ![p] = e]
  /\ i' = [i EXCEPT ![p] = i[p] + 1]
  /\ UNCHANGED <<pc, results>>

\* return results, err
Abort(p, e) ==
  /\ Fail(p, e)
  /\ UNCHANGED <<results, i>>

AddRecord_keepsFailed(p, rec) ==
  \E ok \in BOOLEAN :
    /\ log' = [log EXCEPT ![p] = Append(log[p], Issued("create", i[p], rec, ok))]
    /\ IF ok
       THEN /\ zone' = addRecordRemote(zone, rec, nextID)
            /\ nextID' = nextID + 1
            /\ Continue(p, toLibdnsRecord([rec EXCEPT !.ID = nextID]))
       ELSE /\ results' = [results EXCEPT ![p] = Append(results[p], toLibdnsRecord(rec))]
            /\ Fail(p, "TransportError")
            /\ UNCHANGED <<zone, nextID, i>>

\* result, err := p.addRecord(ctx, zoneDetails.ID, rec): the provider stores the
\* record under a fresh ID and returns it, or the call fails.
AddRecord(p, rec) ==
  \E ok \in BOOLEAN :
    /\ log' = [log EXCEPT ![p] = Append(log[p], Issued("create", i[p], rec, ok))]
    /\ IF ok
       THEN /\ zone' = addRecordRemote(zone, rec, nextID)
            /\ nextID' = nextID + 1
            /\ Continue(p, toLibdnsRecord([rec EXCEPT !.ID = nextID]))
       ELSE /\ Abort(p, "TransportError")
            /\ UNCHANGED <<zone, nextID>>

\* for _, r := range recs { ... } of AppendRecords
AppendStep(p) ==
  /\ pc[p] = "loop" /\ op[p] = "append" /\ i[p] <= Len(recs[p])
  /\ LET r == recs[p][i[p]]
         dynv6Rec == fromLibdnsRecord(r)
     IN  IF ~dynv6Rec.ok
         THEN /\ Abort(p, "UnsupportedRecordType")
              /\ UNCHANGED <<zone, nextID, log>>
         ELSE AddRecord(p, dynv6Rec.rec)
  /\ UNCHANGED <<phase, op, recs, existing, prev>>

updateRecord_fromRequest(existingRecord, r) ==
  record(0, existingRecord.Name, existingRecord.Type, getDataFromRecord(r), existingRecord.TTL)

\* updateRecord := *existingRecord; updateRecord.Data = getDataFromRecord(r)
updateRecord(existingRecord, r) ==
  [existingRecord EXCEPT !.Data = getDataFromRecord(r)]

\* result, err = p.updateRecord(ctx, zoneDetails.ID, &updateRecord): the provider
\* rewrites the record of that ID and returns it; the call fails when the
\* provider holds no record of that ID, or in transport.
UpdateRecord(p, rec) ==
  \E ok \in (IF rec.ID \in IDs(zone) THEN BOOLEAN ELSE {FALSE}) :
    /\ log' = [log EXCEPT ![p] = Append(log[p], Issued("update", i[p], rec, ok))]
    /\ IF ok
       THEN /\ zone' = updateRecordRemote(zone, rec)
            /\ Continue(p, toLibdnsRecord(rec))
       ELSE /\ Abort(p, "TransportError")
            /\ UNCHANGED zone
    /\ UNCHANGED nextID

SetTarget_last(p) == findLastRecordFrom(existing[p], recs[p][i[p]], Len(existing[p]))

SetTarget_relists(p) == findRecord(zone, recs[p][i[p]])

\* existingRecord := findRecord(existingRecords, &r)
SetTarget(p) == findRecord(existing[p], recs[p][i[p]])

\* for _, r := range recs { ... } of SetRecords
SetStep(p) ==
  /\ pc[p] = "loop" /\ op[p] = "set" /\ i[p] <= Len(recs[p])
  /\ LET r == recs[p][i[p]]
         existingRecord == SetTarget(p)
         newRecord == fromLibdnsRecord(r)
     IN  IF existingRecord # NilRecord
         THEN UpdateRecord(p, updateRecord(existingRecord, r))
         ELSE IF ~newRecord.ok
         THEN /\ Abort(p, "UnsupportedRecordType")
              /\ UNCHANGED <<zone, nextID, log>>
         ELSE AddRecord(p, newRecord.rec)
  /\ UNCHANGED <<phase, op, recs, existing, prev>>

DeleteTarget_byNameType(p) == findRecord(existing[p], recs[p][i[p]])

\* existingRecord := findRecordWithValue(existingRecords, &r)
DeleteTarget(p) == findRecordWithValue(existing[p], recs[p][i[p]])

\* err = p.deleteRecord(ctx, zoneDetails.ID, existingRecord.ID): the provider
\* removes the record of that ID, or the call fails.  For an ID the provider no
\* longer holds, the provider either reports an error or reports success.
DeleteRecord(p, id, r) ==
  \E ok \in BOOLEAN :
    /\ log' = [log EXCEPT ![p] = Append(log[p], Issued("delete", i[p], [ID |-> id], ok))]
    /\ IF ok
       THEN /\ zone' = deleteRecordRemote(zone, id)
            /\ Continue(p, r)
       ELSE /\ Abort(p, "TransportError")
            /\ UNCHANGED zone
    /\ UNCHANGED nextID

\* for _, r := range recs { ... } of DeleteRecords
DeleteStep(p) ==
  /\ pc[p] = "loop" /\ op[p] = "delete" /\ i[p] <= Len(recs[p])
  /\ LET r == recs[p][i[p]]
         existingRecord == DeleteTarget(p)
     IN  IF existingRecord = NilRecord
         THEN /\ Abort(p, "RecordNotFound")
              /\ UNCHANGED <<zone, nextID, log>>
         ELSE DeleteRecord(p, existingRecord.ID, r)
  /\ UNCHANGED <<phase, op, recs, existing, prev>>

\* return results, nil
Return(p) ==
  /\ pc[p] = "loop" /\ i[p] > Len(recs[p])
  /\ pc' = [pc EXCEPT ![p] = "done"]
  /\ UNCHANGED <<zone, nextID, phase, op, recs, i, existing, results, err, log, prev>>

\* One caller, one call at a time.
Next ==
  \/ Call(1)
  \/ FollowUp(1)
  \/ GetZone(1)
  \/ Fetch(1)
  \/ AppendStep(1)
  \/ SetStep(1)
  \/ DeleteStep(1)
  \/ Return(1)

Spec == Init /\ [][Next]_vars

\* Two callers, each in one SetRecords call, their remote calls interleaved.
NextRace ==
  \E p \in Procs :
    \/ CallSet(p)
    \/ GetZone(p)
    \/ Fetch(p)
    \/ SetStep(p)
    \/ Return(p)

SpecRace == Init /\ [][NextRace]_vars

\* ------------------------------------------------------------------ the claims
\* The remote write calls a call has issued for its k-th request.
LogAt(p, k) == SelectSeq(log[p], LAMBDA c : c.at = k)

SameKey(e, r) == e.Name = r.Name /\ e.Type = r.Type

SameValue(e, r) == SameKey(e, r) /\ e.Data = r.Data

KeyMatches(records, r) == {j \in DOMAIN records : SameKey(records[j], r)}

ValueMatches(records, r) == {j \in DOMAIN records : SameValue(records[j], r)}

Created(p) == {n \in DOMAIN log[p] : log[p][n].kind = "create" /\ log[p][n].ok}

RemoveAt(z, j) == [k \in 1..(Len(z) - 1) |-> IF k < j THEN z[k] ELSE z[k + 1]]

\* A step of caller p's loop that issues a remote write call.
Issues(p) == pc[p] = "loop" /\ i[p] <= Len(recs[p]) /\ Len(log'[p]) = Len(log[p]) + 1

\* A step of caller p's loop that handles its request without error.
Handles(p) == pc[p] = "loop" /\ i[p] <= Len(recs[p]) /\ i'[p] = i[p] + 1

\* For every request of the given kinds that Set has handled and that has a
\* (Name, Type) match among the existing records: Set issued one call for it, an
\* update of a matching existing record that carries that record's ID, Name, Type
\* and TTL and the requested Data, and the number of records changed only by the
\* creates of the other requests.
SetUpdatesMatched(kinds) ==
  op[1] = "set" =>
    \A k \in 1..Len(results[1]) :
      LET r == recs[1][k]
      IN  (r.kind \in kinds /\ KeyMatches(existing[1], r) # {}) =>
            /\ Len(LogAt(1, k)) = 1
            /\ LogAt(1, k)[1].kind = "update"
            /\ \E j \in KeyMatches(existing[1], r) :
                 LogAt(1, k)[1].rec = [existing[1][j] EXCEPT !.Data = r.Data]
            /\ Len(zone) = Len(existing[1]) + Cardinality(Created(1))

\* C1: every requested record whose (Name, Type) equals that of an existing
\* record makes Set update that record's Data to the requested Data: the update
\* call carries the existing ID, Name, Type and TTL, no create is issued for the
\* request, and the number of records does not change.
C1_SetUpdatesMatchedRecord == SetUpdatesMatched({"RR", "Address"})

\* C2: Set called twice in a row with the same list: the second call leaves the
\* zone as the first call left it and creates no record.
C2_SetIdempotent ==
  (/\ phase[1] = "followup" /\ op[1] = "set" /\ pc[1] = "done" /\ err[1] = "none"
   /\ prev[1].op = "set" /\ prev[1].err = "none")
  => (zone = existing[1] /\ Created(1) = {})

\* C3 as claimed: whenever Delete returns RecordNotFound, the zone's records are
\* those before the call.
C3_NotFoundLeavesZoneUnchanged ==
  (op[1] = "delete" /\ pc[1] = "done" /\ err[1] = "RecordNotFound")
  => zone = existing[1]

DeletedIDs(p) ==
  {log[p][n].rec.ID : n \in {m \in DOMAIN log[p] : log[p][m].kind = "delete" /\ log[p][m].ok}}

\* C3 as amended: whenever Delete returns RecordNotFound, the failing request has
\* no existing record of equal Name, Type and Data and no remote call was issued
\* for it; each request before it deleted an existing record equal to it in Name,
\* Type and Data; the zone is the zone before the call without those records, and
\* is unchanged when the failing request is the first.
C3_NotFoundLeavesRestOfZone ==
  (op[1] = "delete" /\ pc[1] = "done" /\ err[1] = "RecordNotFound")
  => /\ ValueMatches(existing[1], recs[1][i[1]]) = {}
     /\ LogAt(1, i[1]) = <<>>
     /\ \A k \in 1..(i[1] - 1) :
          /\ Len(LogAt(1, k)) = 1
          /\ LogAt(1, k)[1].kind = "delete" /\ LogAt(1, k)[1].ok
          /\ \E j \in ValueMatches(existing[1], recs[1][k]) :
               existing[1][j].ID = LogAt(1, k)[1].rec.ID
     /\ zone = SelectSeq(existing[1], LAMBDA e : e.ID \notin DeletedIDs(1))
     /\ (i[1] = 1 => zone = existing[1])

C3_Witness ==
  /\ op[1] = "delete" /\ pc[1] = "done" /\ err[1] = "RecordNotFound"
  /\ i[1] = 2 /\ Len(zone) < Len(existing[1])

\* C4: every request of Delete that has an exact (Name, Type, Data) match in the
\* zone removes exactly one record of that Name, Type and Data and changes
\* nothing else, unless the transport fails, also for a request list that names
\* a record twice.
C4_DeleteRemovesOnePerRequest ==
  [][ (Issues(1) /\ op[1] = "delete") =>
        LET r == recs[1][i[1]]
            c == log'[1][Len(log'[1])]
            transportFailed == ~c.ok /\ c.rec.ID \in IDs(zone)
        IN  (ValueMatches(zone, r) # {} /\ ~transportFailed) =>
              \E j \in ValueMatches(zone, r) : zone' = RemoveAt(zone, j) ]_vars

\* C5: every record Append returned as created, on success or with an error, is
\* in the list a following List returns, equal in Name, Type, Data and TTL.
C5_ListContainsAppended ==
  (/\ phase[1] = "followup" /\ op[1] = "get" /\ pc[1] = "done" /\ err[1] = "none"
   /\ prev[1].op = "append")
  => \A k \in DOMAIN prev[1].results :
       \E j \in DOMAIN results[1] : results[1][j] = prev[1].results[k]

C5_Witness ==
  /\ phase[1] = "followup" /\ op[1] = "get" /\ pc[1] = "done" /\ err[1] = "none"
  /\ prev[1].op = "append" /\ prev[1].err = "TransportError"
  /\ Len(prev[1].results) = 2

\* C6: in Append, Set and Delete the first error ends the batch: the returned
\* list holds one entry for each request before the failing one, in request
\* order; each of those issued exactly one remote write call, which succeeded;
\* the failing request issued at most one, which failed; no call was issued for
\* a request after it.
C6_FirstErrorAborts ==
  (pc[1] = "done" /\ err[1] # "none" /\ op[1] \in {"append", "set", "delete"})
  => /\ Len(results[1]) = i[1] - 1
     /\ \A k \in 1..(i[1] - 1) :
          /\ SameKey(results[1][k], recs[1][k])
          /\ Len(LogAt(1, k)) = 1 /\ LogAt(1, k)[1].ok
     /\ Len(LogAt(1, i[1])) <= 1
     /\ \A n \in DOMAIN log[1] : log[1][n].at <= i[1] /\ (log[1][n].at = i[1] => ~log[1][n].ok)

C6_Witness ==
  /\ pc[1] = "done" /\ err[1] = "UnsupportedRecordType" /\ op[1] = "set"
  /\ i[1] = 2 /\ Len(recs[1]) = 3 /\ Len(results[1]) = 1

C8_SetWritesByItsOwnListing ==
  [][ \A p \in Procs :
        Handles(p) =>
          LET r == recs[p][i[p]]
              e == findRecord(existing[p], r)
          IN  IF e = NilRecord
              THEN Len(zone') = Len(zone) + 1
              ELSE /\ Len(zone') = Len(zone)
                   /\ \E j \in DOMAIN zone' :
                        zone'[j] = [e EXCEPT !.Data = getDataFromRecord(r)] ]_vars

\* Both callers listed the zone before either wrote, neither found a match, both
\* created: the zone ends with two records of one Name and Type.
C8_Witness ==
  /\ pc[1] = "done" /\ pc[2] = "done" /\ err[1] = "none" /\ err[2] = "none"
  /\ existing[1] = existing[2]
  /\ Created(1) # {} /\ Created(2) # {}
  /\ SameKey(log[1][1].rec, log[2][1].rec)
  /\ \E j, k \in DOMAIN zone :
       /\ j # k /\ SameKey(zone[j], zone[k])
       /\ zone[j].ID \notin IDs(existing[1]) /\ zone[k].ID \notin IDs(existing[1])

\* C9: every update and every delete call targets an ID of the list fetched by
\* the same call, and every create call carries the zero ID.
C9_NoForgedID ==
  \A n \in DOMAIN log[1] :
    IF log[1][n].kind = "create"
    THEN log[1][n].rec.ID = 0
    ELSE log[1][n].rec.ID \in IDs(existing[1])

C9_Witness ==
  /\ pc[1] = "done" /\ Len(log[1]) = 3
  /\ log[1][1].kind = "update" /\ log[1][2].kind = "create"

\* j is the first of the positions S of a listing.
IsFirst(S, j) == j \in S /\ \A m \in S : j <= m

\* C10: when several records of the fetched list match a request, the call acts
\* on the first of them in listing order: Set's update call targets it and only
\* that record of the zone changes; Delete's delete call targets it and only that
\* record leaves the zone.
C10_FirstMatchWins ==
  [][ (Issues(1) /\ op[1] \in {"set", "delete"}) =>
        LET r == recs[1][i[1]]
            c == log'[1][Len(log'[1])]
        IN  /\ (c.kind = "update" /\ Cardinality(KeyMatches(existing[1], r)) > 1) =>
                 \E j \in DOMAIN existing[1] :
                   /\ IsFirst(KeyMatches(existing[1], r), j)
                   /\ c.rec.ID = existing[1][j].ID
                   /\ \A m \in DOMAIN zone :
                        zone[m].ID # c.rec.ID => (m \in DOMAIN zone' /\ zone'[m] = zone[m])
            /\ (c.kind = "delete" /\ Cardinality(ValueMatches(existing[1], r)) > 1) =>
                 \E j \in DOMAIN existing[1] :
                   /\ IsFirst(ValueMatches(existing[1], r), j)
                   /\ c.rec.ID = existing[1][j].ID
                   /\ zone' = SelectSeq(zone, LAMBDA e : ~c.ok \/ e.ID # c.rec.ID) ]_vars

C10_Witness ==
  /\ op[1] = "set" /\ pc[1] = "done" /\ err[1] = "none" /\ Len(log[1]) = 1
  /\ Cardinality(KeyMatches(existing[1], recs[1][1])) > 1
  /\ log[1][1].kind = "update"
  /\ \E j \in DOMAIN zone : zone[j].ID # log[1][1].rec.ID /\ zone[j].Data # log[1][1].rec.Data
====
